---- MODULE Spec2Model ----
(***************************************************************************)
(* Model of conrad/utils.py: the PsradSymlinks context manager, the        *)
(* with_psrad_symlinks decorator and append_timestep_netcdf.               *)
(*                                                                         *)
(* The working directory is a map from entry names to entries; an entry    *)
(* is absent, a regular file, a directory or a symbolic link with a        *)
(* target path.  The PSRAD directory is the set of regular files it        *)
(* holds.  The file system is assumed writable: os.symlink fails only      *)
(* when the name is taken, os.remove only when there is nothing (or a      *)
(* directory) to remove.  The protected work does not touch the working    *)
(* directory.                                                              *)
(***************************************************************************)
EXTENDS Integers, Sequences, FiniteSets, TLC

\* ------------------------------------------------------------------ bounds
MaxArg == 2          \* argument values passed to a wrapped function
MaxTime == 2         \* largest initial length of the time axis of a dataset
MaxAppend == 1       \* number of append_timestep_netcdf calls in one run
NLev == 3            \* size of the plev dimension of a dataset

\* --------------------------------------------------------------- constants
Unset == "<unset>"                 \* os.environ has no key PSRAD_PATH
PsradPath == "/data/psrad"         \* a value of os.environ['PSRAD_PATH']

psrad_files ==
    << "ECHAM6_CldOptProps.nc", "rrtmg_lw.nc", "rrtmg_sw.nc", "libpsrad.so.1" >>

Range(s) == { s[k] : k \in 1..Len(s) }

PsradNames == Range(psrad_files)
OtherName == "run.log"             \* an entry that is not a PSRAD file
Names == PsradNames \cup {OtherName}

Insts == {"A", "B"}                \* PsradSymlinks instances (scopes)

\* ------------------------------------------------------------ file system
Absent == [kind |-> "absent", target |-> << >>]
RegFile == [kind |-> "file", target |-> << >>]
Directory == [kind |-> "dir", target |-> << >>]
Link(t) == [kind |-> "link", target |-> t]

\* a join that drops the directory
JoinFlat(path, f) == << f >>

\* os.path.join(path, f) for a relative file name f
Join(path, f) == << path, f >>

\* the path names a regular file (the PSRAD directory holds the files `root`)
Resolves(root, t) == /\ Len(t) = 2
                     /\ t[1] = PsradPath
                     /\ t[2] \in root

\* os.path.lexists(f): there is an entry of any kind
LExists(dir, root, f) == dir[f].kind # "absent"

\* a test that does not follow links
isfileNoFollow(dir, root, f) == dir[f].kind = "file"

\* os.path.isfile(f): follows links, true for a regular file only
isfile(dir, root, f) ==
    \/ dir[f].kind = "file"
    \/ dir[f].kind = "link" /\ Resolves(root, dir[f].target)

VARIABLES
    environ,        \* os.environ.get('PSRAD_PATH'), or Unset
    root,           \* regular files in the PSRAD directory
    cwd,            \* the working directory
    active,         \* the instances this run constructs
    log,            \* records written to the logger
    pc,             \* position of each scope
    args,           \* arguments func_wrapper was called with
    psrad_path,     \* self._psrad_path
    created_files,  \* self._created_files
    fcalls,         \* number of invocations of the wrapped func
    fargs,          \* arguments the wrapped func received
    fret,           \* value the wrapped func returned
    outcome,        \* how func_wrapper ended
    syscalls,       \* file system calls made by each instance
    before,         \* working directory when __enter__ began
    afterEnter,     \* working directory when __enter__ ended
    afterExit,      \* working directory when __exit__ ended
    nc,             \* the netCDF dataset
    nc0,            \* the dataset before the last append
    lastData,       \* data of the last append
    lastStamp,      \* timestamp of the last append
    appends         \* number of appends made

fsvars == << environ, root, cwd, active, log, pc, args, psrad_path,
             created_files, fcalls, fargs, fret, outcome, syscalls,
             before, afterEnter, afterExit >>
ncvars == << nc, nc0, lastData, lastStamp, appends >>
vars == << fsvars, ncvars >>

\* ----------------------------------------------------------- PsradSymlinks
Undefined == << "<undefined>" >>   \* an attribute that was never assigned
NoArgs == [pos |-> 0, kw |-> 0]
Args == [pos : 1..MaxArg, kw : 1..MaxArg]   \* (*args, **kwargs)
Vals == {"X", "Y"}                 \* values a wrapped function returns
Pending == << "pending", "" >>

\* a symlink call that replaces what is there
symlinkOver(dir, src, dst) ==
    [dir |-> [dir EXCEPT ![dst] = Link(src)], err |-> "ok"]

\* os.symlink(src, dst): fails when dst names an entry of any kind
symlink(dir, src, dst) ==
    IF dir[dst].kind # "absent"
    THEN [dir |-> dir, err |-> "FileExistsError"]
    ELSE [dir |-> [dir EXCEPT ![dst] = Link(src)], err |-> "ok"]

\* os.remove(f): unlinks a regular file or a link, never a directory
remove(dir, f) ==
    CASE dir[f].kind = "absent" -> [dir |-> dir, err |-> "FileNotFoundError"]
      [] dir[f].kind = "dir"    -> [dir |-> dir, err |-> "IsADirectoryError"]
      [] OTHER -> [dir |-> [dir EXCEPT ![f] = Absent], err |-> "ok"]

\* the loop of __enter__ from the k-th file on; st is the state it works on:
\* the directory, _created_files, the system calls made, the log, the error
RECURSIVE EnterLoop(_, _, _, _)
EnterLoop(k, path, rt, st) ==
    IF k > Len(psrad_files) THEN st
    ELSE LET f == psrad_files[k] IN
         IF isfile(st.dir, rt, f)
         THEN EnterLoop(k + 1, path, rt,
                  [st EXCEPT !.calls = Append(@, << "isfile", f, "True" >>)])
         ELSE LET r == symlink(st.dir, Join(path, f), f)
                  c == st.calls \o << << "isfile", f, "False" >>,
                                      << "symlink", f, r.err >> >>
              IN IF r.err # "ok"
                 THEN [st EXCEPT !.calls = c, !.err = r.err]
                 ELSE EnterLoop(k + 1, path, rt,
                          [st EXCEPT !.dir = r.dir,
                                     !.created = Append(@, f),
                                     !.calls = c,
                                     !.log = Append(@, << "debug", "Create symlink", f >>)])

\* the loop of __exit__ over _created_files from the k-th element on
RECURSIVE ExitLoop(_, _, _)
ExitLoop(k, created, st) ==
    IF k > Len(created) THEN st
    ELSE LET f == created[k]
             r == remove(st.dir, f)
             c == Append(st.calls, << "remove", f, r.err >>)
         IN IF r.err # "ok"
            THEN [st EXCEPT !.calls = c, !.err = r.err]
            ELSE ExitLoop(k + 1, created, [st EXCEPT !.dir = r.dir, !.calls = c])

\* what __exit__ leaves in _created_files
RecordAfterExit(created) == created

\* a call that passes the positional arguments only
DropKwargs(a) == [a EXCEPT !.kw = 0]

\* func(*args, **kwargs): the arguments handed to the wrapped function
PassArgs(a) == a

\* return func(...): the value func_wrapper returns
ReturnValue(x) == x

\* the body of the with statement runs once __enter__ has returned
MayCall(p) == p = "entered"

\* a scope that cleans up after a normal return only
ExitOnReturnOnly(p) == p = "returned"

\* the with statement calls __exit__ once the body has returned or raised
MustExit(p) == p \in {"returned", "raised"}

TypeOK ==
    /\ environ \in {Unset, PsradPath}
    /\ root \subseteq PsradNames
    /\ active \subseteq Insts
    /\ \A n \in Names : cwd[n].kind \in {"absent", "file", "dir", "link"}
    /\ \A i \in Insts :
          pc[i] \in {"idle", "constructed", "entered", "running",
                     "returned", "raised", "init_failed", "enter_failed",
                     "exited"}

\* an entry of kind k named n; a link that is there beforehand points into
\* the PSRAD directory and dangles when the file is missing there
InitialEntry(n, k) ==
    IF k = "link" THEN Link(<< PsradPath, n >>) ELSE [kind |-> k, target |-> << >>]

FsInit(act, entries, roots, envs) ==
    /\ environ \in envs
    /\ root \in roots
    /\ cwd \in { [n \in Names |-> IF n = OtherName THEN RegFile
                                   ELSE InitialEntry(n, e[n])] :
                    e \in [PsradNames -> entries] }
    /\ active = act
    /\ log = << >>
    /\ pc = [i \in Insts |-> "idle"]
    /\ args = [i \in Insts |-> NoArgs]
    /\ psrad_path = [i \in Insts |-> Unset]
    /\ created_files = [i \in Insts |-> Undefined]
    /\ fcalls = [i \in Insts |-> 0]
    /\ fargs = [i \in Insts |-> NoArgs]
    /\ fret = [i \in Insts |-> "none"]
    /\ outcome = [i \in Insts |-> Pending]
    /\ syscalls = [i \in Insts |-> << >>]
    /\ before = [i \in Insts |-> cwd]
    /\ afterEnter = [i \in Insts |-> cwd]
    /\ afterExit = [i \in Insts |-> cwd]

\* __init__ that logs the KeyError and goes on
ConstructSwallow(i, a) ==
    /\ i \in active
    /\ pc[i] = "idle"
    /\ args' = [args EXCEPT ![i] = a]
    /\ log' = IF environ = Unset
              THEN Append(log, << "error", "Path to PSRAD directory not set.", "KeyError" >>)
              ELSE log
    /\ psrad_path' = [psrad_path EXCEPT ![i] = environ]
    /\ created_files' = [created_files EXCEPT ![i] = << >>]
    /\ pc' = [pc EXCEPT ![i] = "constructed"]
    /\ UNCHANGED << environ, root, cwd, active, outcome, fcalls, fargs, fret,
                    syscalls, before, afterEnter, afterExit, ncvars >>

\* func_wrapper is called with arguments a and constructs its PsradSymlinks:
\* __init__ reads os.environ['PSRAD_PATH'], logs and re-raises the KeyError
Construct(i, a) ==
    /\ i \in active
    /\ pc[i] = "idle"
    /\ args' = [args EXCEPT ![i] = a]
    /\ IF environ = Unset
       THEN /\ log' = Append(log, << "error", "Path to PSRAD directory not set.", "KeyError" >>)
            /\ outcome' = [outcome EXCEPT ![i] = << "raise", "KeyError" >>]
            /\ pc' = [pc EXCEPT ![i] = "init_failed"]
            /\ UNCHANGED << psrad_path, created_files >>
       ELSE /\ psrad_path' = [psrad_path EXCEPT ![i] = environ]
            /\ created_files' = [created_files EXCEPT ![i] = << >>]
            /\ pc' = [pc EXCEPT ![i] = "constructed"]
            /\ UNCHANGED << log, outcome >>
    /\ UNCHANGED << environ, root, cwd, active, fcalls, fargs, fret, syscalls,
                    before, afterEnter, afterExit, ncvars >>

\* __enter__; an error of os.symlink leaves the with statement at once,
\* without __exit__
Enter(i) ==
    /\ pc[i] = "constructed"
    /\ LET st == EnterLoop(1, psrad_path[i], root,
                     [dir |-> cwd, created |-> created_files[i],
                      calls |-> syscalls[i], log |-> log, err |-> "ok"])
       IN /\ cwd' = st.dir
          /\ created_files' = [created_files EXCEPT ![i] = st.created]
          /\ syscalls' = [syscalls EXCEPT ![i] = st.calls]
          /\ log' = st.log
          /\ before' = [before EXCEPT ![i] = cwd]
          /\ afterEnter' = [afterEnter EXCEPT ![i] = st.dir]
          /\ IF st.err = "ok"
             THEN /\ pc' = [pc EXCEPT ![i] = "entered"]
                  /\ UNCHANGED outcome
             ELSE /\ pc' = [pc EXCEPT ![i] = "enter_failed"]
                  /\ outcome' = [outcome EXCEPT ![i] = << "raise", st.err >>]
    /\ UNCHANGED << environ, root, active, args, psrad_path, fcalls, fargs,
                    fret, afterExit, ncvars >>

\* the body of the with statement starts: func(*args, **kwargs)
CallFunc(i) ==
    /\ MayCall(pc[i])
    /\ pc' = [pc EXCEPT ![i] = "running"]
    /\ fcalls' = [fcalls EXCEPT ![i] = @ + 1]
    /\ fargs' = [fargs EXCEPT ![i] = PassArgs(args[i])]
    /\ UNCHANGED << environ, root, cwd, active, log, args, psrad_path,
                    created_files, fret, outcome, syscalls, before,
                    afterEnter, afterExit, ncvars >>

\* func returns x
FuncReturn(i, x) ==
    /\ pc[i] = "running"
    /\ pc' = [pc EXCEPT ![i] = "returned"]
    /\ fret' = [fret EXCEPT ![i] = x]
    /\ UNCHANGED << environ, root, cwd, active, log, args, psrad_path,
                    created_files, fcalls, fargs, outcome, syscalls, before,
                    afterEnter, afterExit, ncvars >>

\* func raises
FuncRaise(i) ==
    /\ pc[i] = "running"
    /\ pc' = [pc EXCEPT ![i] = "raised"]
    /\ UNCHANGED << environ, root, cwd, active, log, args, psrad_path,
                    created_files, fcalls, fargs, fret, outcome, syscalls,
                    before, afterEnter, afterExit, ncvars >>

\* __exit__, then func_wrapper ends: __exit__ returns None, so an error of
\* the body propagates; an error of os.remove replaces it
Exit(i) ==
    /\ MustExit(pc[i])
    /\ LET st == ExitLoop(1, created_files[i],
                     [dir |-> cwd, calls |-> syscalls[i], err |-> "ok"])
       IN /\ cwd' = st.dir
          /\ syscalls' = [syscalls EXCEPT ![i] = st.calls]
          /\ afterExit' = [afterExit EXCEPT ![i] = st.dir]
          /\ created_files' = [created_files EXCEPT
                                 ![i] = RecordAfterExit(created_files[i])]
          /\ outcome' = [outcome EXCEPT ![i] =
                 IF st.err # "ok" THEN << "raise", st.err >>
                 ELSE IF pc[i] = "raised" THEN << "raise", "BodyError" >>
                 ELSE << "return", ReturnValue(fret[i]) >>]
    /\ pc' = [pc EXCEPT ![i] = "exited"]
    /\ UNCHANGED << environ, root, active, log, args, psrad_path, fcalls,
                    fargs, fret, before, afterEnter, ncvars >>

FsNext ==
    \/ \E i \in Insts, a \in Args : Construct(i, a)
    \/ \E i \in Insts : Enter(i)
    \/ \E i \in Insts : CallFunc(i)
    \/ \E i \in Insts, x \in Vals : FuncReturn(i, x)
    \/ \E i \in Insts : FuncRaise(i)
    \/ \E i \in Insts : Exit(i)

\* -------------------------------------------------- append_timestep_netcdf
VarNames == {"T", "X"}             \* variables of the dataset besides time
DimChoices == { << "time", "plev" >>, << "plev" >>, << "time" >>,
                << "plev", "time" >> }
Stamps == {12, 13}
Bases == {290, 300}

DimSize(d, tsize) == IF d = "time" THEN tsize ELSE NLev

\* the index tuples of a variable with dimensions dims
Cells(dims, tsize) ==
    IF Len(dims) = 1
    THEN { << a >> : a \in 0..(DimSize(dims[1], tsize) - 1) }
    ELSE { << a, b >> : a \in 0..(DimSize(dims[1], tsize) - 1),
                        b \in 0..(DimSize(dims[2], tsize) - 1) }

\* the value an earlier run stored in a cell
Stored(c) == 100 + 10 * c[1] + (IF Len(c) = 2 THEN c[2] ELSE 0)

\* a dataset with a time axis of length t; `cells` maps the cells that were
\* written to their values, every cell of the earlier timesteps is written
Dataset(dimsOf, t) ==
    [tsize |-> t,
     time |-> [c \in Cells(<< "time" >>, t) |-> Stored(c)],
     vars |-> [v \in VarNames |->
                 [dimensions |-> dimsOf[v],
                  cells |-> [c \in Cells(dimsOf[v], t) |-> Stored(c)]]]]

\* a write at index n - 1 of the unlimited dimension grows it to n; the new
\* cells of the other variables along it stay unwritten
Grow(file, n) ==
    IF n <= file.tsize THEN file ELSE [file EXCEPT !.tsize = n]

\* cells with the cells of `written` set to their new values
Store(cells, written) ==
    [c \in DOMAIN cells \cup DOMAIN written |->
        IF c \in DOMAIN written THEN written[c] ELSE cells[c]]

\* nc.variables['time'][t] = timestamp
SetTime(file, t, stamp) ==
    LET g == Grow(file, t + 1)
    IN [g EXCEPT !.time = Store(@, [c \in {<< t >>} |-> stamp])]

\* nc.variables[var][t, :] = values
SetRow(file, var, t, values) ==
    LET g == Grow(file, t + 1)
    IN [g EXCEPT !.vars[var].cells =
           Store(@, [c \in {<< t, j >> : j \in 0..(NLev - 1)} |-> values[c[2]]])]

\* nc[var].dimensions == ('time', 'plev')
Matches(dims) == dims = << "time", "plev" >>

\* hasattr(x, 'values'): a plain array has no such attribute
hasattr_values(x) == "values" \in DOMAIN x

\* data[var].values if hasattr(data[var], 'values') else data[var]
Unwrap(x) == IF hasattr_values(x) THEN x.values ELSE x.ndarray

\* the loop over the items of data from the k-th on
RECURSIVE AppendLoop(_, _, _, _)
AppendLoop(k, data, t, file) ==
    IF k > Len(data) THEN file
    ELSE LET var == data[k].var IN
         IF Matches(file.vars[var].dimensions)
         THEN AppendLoop(k + 1, data, t,
                         SetRow(file, var, t, Unwrap(data[k].value)))
         ELSE AppendLoop(k + 1, data, t, file)

\* the index of the last timestep stored
LastIndex(file) == IF file.tsize = 0 THEN 0 ELSE file.tsize - 1

\* the index to store the data at: nc.dimensions['time'].size
NextIndex(file) == file.tsize

append_timestep_netcdf(file, data, timestamp) ==
    LET t == NextIndex(file)
    IN AppendLoop(1, data, t, SetTime(file, t, timestamp))

\* the one-dimensional arrays a caller supplies
Arrays == { [j \in 0..(NLev - 1) |-> b + 5 * j] : b \in Bases }

\* an item of data for variable v: a plain array, or an object that holds
\* the array in its .values attribute
Supplied(v) ==
    { [var |-> v, value |-> [ndarray |-> a]] : a \in Arrays } \cup
    { [var |-> v, value |-> [values |-> a, name |-> v]] : a \in Arrays }

\* the items of a dict over the variables of the dataset, in its order
DataChoices ==
    {<< >>} \cup { << d >> : d \in UNION { Supplied(v) : v \in VarNames } }
            \cup { << d, e >> : d \in Supplied("T"), e \in Supplied("X") }
            \cup { << e, d >> : d \in Supplied("T"), e \in Supplied("X") }

NoDataset == Dataset([v \in VarNames |-> << "plev" >>], 0)

NcIdle ==
    /\ nc = NoDataset
    /\ nc0 = NoDataset
    /\ lastData = << >>
    /\ lastStamp = 0
    /\ appends = 0

NcInit ==
    /\ nc \in { Dataset(d, t) : d \in [VarNames -> DimChoices], t \in 0..MaxTime }
    /\ nc0 = nc
    /\ lastData = << >>
    /\ lastStamp = 0
    /\ appends = 0

AppendTimestep(data, timestamp) ==
    /\ appends < MaxAppend
    /\ nc' = append_timestep_netcdf(nc, data, timestamp)
    /\ nc0' = nc
    /\ lastData' = data
    /\ lastStamp' = timestamp
    /\ appends' = appends + 1
    /\ UNCHANGED fsvars

\* ---------------------------------------------------------- specifications
\* one scope: any working directory, any PSRAD directory
Init ==
    /\ FsInit({"A"}, {"absent", "file", "dir", "link"},
              SUBSET PsradNames, {Unset, PsradPath})
    /\ NcIdle

Next == FsNext

Spec == Init /\ [][Next]_vars

\* two scopes on one working directory with no PSRAD file in it
InitOverlap ==
    /\ FsInit({"A", "B"}, {"absent"}, SUBSET PsradNames, {PsradPath})
    /\ NcIdle

SpecOverlap == InitOverlap /\ [][Next]_vars

\* appends to a dataset
FsIdle == FsInit({}, {"absent"}, {PsradNames}, {PsradPath})

InitAppend == FsIdle /\ NcInit

NextAppend == \E data \in DataChoices, timestamp \in Stamps :
                 AppendTimestep(data, timestamp)

SpecAppend == InitAppend /\ [][NextAppend]_vars

\* ------------------------------------------------------------------ claims
\* __enter__ of instance i has run (to its end or to an error)
HasEntered(i) == pc[i] \in {"entered", "running", "returned", "raised",
                            "exited", "enter_failed"}
\* __enter__ of instance i has returned
Acquired(i) == pc[i] \in {"entered", "running", "returned", "raised", "exited"}

\* the alias of a PSRAD file
Alias(n) == Link(<< PsradPath, n >>)

AllAbsent(dir) == \A n \in PsradNames : dir[n] = Absent

\* the names instance i called op on with result res, in call order
CallsOf(i, op, res) ==
    LET q == SelectSeq(syscalls[i], LAMBDA c : c[1] = op /\ c[3] = res)
    IN [k \in 1..Len(q) |-> q[k][2]]

\* the names instance i called op on
Called(i, op) == { syscalls[i][k][2] : k \in { m \in 1..Len(syscalls[i]) :
                                                 syscalls[i][m][1] = op } }

\* the entry resolves to a regular file: a regular file, or a link into the
\* PSRAD directory to a file that is there
ResolvesToFile(dir, n) ==
    \/ dir[n].kind = "file"
    \/ dir[n].kind = "link" /\ dir[n].target = << PsradPath, n >> /\ n \in root

\* C1: from a working directory with none of the four names, __enter__
\* returns with each of the four names a link to PSRAD_PATH/<name> and
\* _created_files listing the four in list order; after the __exit__ that
\* follows none of the four exists and the other entries are as before.
C1_RoundTrip ==
    \A i \in Insts :
        (HasEntered(i) /\ AllAbsent(before[i])) =>
            /\ Acquired(i)
            /\ \A n \in PsradNames : afterEnter[i][n] = Alias(n)
            /\ afterEnter[i][OtherName] = before[i][OtherName]
            /\ created_files[i] = psrad_files
            /\ CallsOf(i, "symlink", "ok") = psrad_files
            /\ pc[i] = "exited" =>
                  /\ AllAbsent(afterExit[i])
                  /\ afterExit[i][OtherName] = before[i][OtherName]

C1_Witness ==
    \E i \in Insts : /\ pc[i] = "exited"
                     /\ AllAbsent(before[i])
                     /\ Len(created_files[i]) = 4
                     /\ AllAbsent(cwd)

\* the names present before __enter__ of instance i
Present(i) == { n \in PsradNames : before[i][n] # Absent }

\* __enter__ left the entries that were there alone and unrecorded, and
\* __exit__ left them alone too
FrameOfPresent(i) ==
    /\ \A n \in Present(i) : /\ afterEnter[i][n] = before[i][n]
                             /\ n \notin Range(created_files[i])
    /\ afterEnter[i][OtherName] = before[i][OtherName]
    /\ pc[i] = "exited" =>
          /\ \A n \in Present(i) : afterExit[i][n] = before[i][n]
          /\ afterExit[i][OtherName] = before[i][OtherName]

\* __enter__ created the aliases of exactly the names that were not there,
\* and __exit__ removed exactly the recorded names
CreatesTheRest(i) ==
    /\ Acquired(i)
    /\ \A n \in PsradNames \ Present(i) : afterEnter[i][n] = Alias(n)
    /\ Range(created_files[i]) = PsradNames \ Present(i)
    /\ CallsOf(i, "symlink", "ok") = created_files[i]
    /\ pc[i] = "exited" =>
          /\ CallsOf(i, "remove", "ok") = created_files[i]
          /\ Called(i, "remove") = Range(created_files[i])
          /\ \A n \in Range(created_files[i]) : afterExit[i][n] = Absent

\* C2 as claimed: for every set P of names present before __enter__ (as any
\* kind of entry), __enter__ leaves P alone and unrecorded and creates the
\* aliases of exactly the other names, __exit__ removes exactly the recorded
\* names, and P is unchanged afterwards.
C2_AnyPresentSkipped ==
    \A i \in Insts : HasEntered(i) => FrameOfPresent(i) /\ CreatesTheRest(i)

\* C2 amended: the entries present beforehand are left alone and unrecorded
\* whatever their kind; when each of them resolves to a regular file,
\* __enter__ creates the aliases of exactly the other names and __exit__
\* removes exactly the recorded names.
C2_PresentFilesSkipped ==
    \A i \in Insts :
        HasEntered(i) =>
            /\ FrameOfPresent(i)
            /\ (\A n \in Present(i) : ResolvesToFile(before[i], n))
                  => CreatesTheRest(i)

C2_Witness ==
    \E i \in Insts :
        /\ pc[i] = "exited"
        /\ before[i]["rrtmg_lw.nc"] = RegFile
        /\ Present(i) = {"rrtmg_lw.nc"}
        /\ created_files[i] =
              << "ECHAM6_CldOptProps.nc", "rrtmg_sw.nc", "libpsrad.so.1" >>
        /\ cwd["rrtmg_lw.nc"] = RegFile

\* C3: once __enter__ has returned, a body that raised is followed by
\* __exit__, which removes every recorded alias, and func_wrapper then ends
\* with the error of the body.
C3_ExitOnError ==
    \A i \in Insts :
        /\ pc[i] \in {"returned", "raised"} => ENABLED Exit(i)
        /\ (pc[i] = "exited" /\ fret[i] = "none") =>
              /\ CallsOf(i, "remove", "ok") = created_files[i]
              /\ \A n \in Range(created_files[i]) : afterExit[i][n] = Absent
              /\ outcome[i] = << "raise", "BodyError" >>

C3_Witness ==
    \E i \in Insts : /\ pc[i] = "exited"
                     /\ fret[i] = "none"
                     /\ Len(created_files[i]) > 0
                     /\ outcome[i] = << "raise", "BodyError" >>

\* C4: a wrapped call whose func returns X without raising invokes func once
\* with the arguments of the call and returns X; the aliases the call created
\* are there all the while func runs and gone when the call has returned.
\* (The call reaches func: PSRAD_PATH is set and __enter__ returned.)
C4_WrapperTransparent ==
    \A i \in Insts :
        /\ fcalls[i] <= 1
        /\ pc[i] = "running" =>
              \A n \in Range(created_files[i]) : cwd[n] = Alias(n)
        /\ pc[i] \in {"running", "returned"} =>
              fcalls[i] = 1 /\ fargs[i] = args[i]
        /\ (pc[i] = "exited" /\ fret[i] \in Vals) =>
              /\ fcalls[i] = 1
              /\ fargs[i] = args[i]
              /\ outcome[i] = << "return", fret[i] >>
              /\ \A n \in Range(created_files[i]) : afterExit[i][n] = Absent

C4_Witness ==
    \E i \in Insts : /\ pc[i] = "exited"
                     /\ args[i] = [pos |-> 1, kw |-> 2]
                     /\ outcome[i] = << "return", "X" >>
                     /\ Len(created_files[i]) = 4
                     /\ AllAbsent(cwd)

\* C5: without PSRAD_PATH the construction logs the error and raises it
\* before any file system call: nothing is created, the working directory
\* is as it was, neither __enter__ nor __exit__ can follow and the wrapped
\* func is never invoked.
C5_MissingSetting ==
    \A i \in Insts :
        (environ = Unset /\ pc[i] # "idle") =>
            /\ pc[i] = "init_failed"
            /\ outcome[i] = << "raise", "KeyError" >>
            /\ \E k \in 1..Len(log) : log[k][1] = "error" /\ log[k][3] = "KeyError"
            /\ syscalls[i] = << >>
            /\ created_files[i] = Undefined
            /\ cwd = before[i]
            /\ fcalls[i] = 0
            /\ ~ ENABLED Enter(i)
            /\ ~ ENABLED CallFunc(i)
            /\ ~ ENABLED Exit(i)

C5_Witness ==
    \E i \in Insts : /\ environ = Unset
                     /\ pc[i] = "init_failed"
                     /\ Len(log) = 1

\* C7 as claimed: _created_files is empty after construction, __enter__ only
\* appends to it, and it is empty again once __exit__ has completed.
C7_RecordDrained ==
    \A i \in Insts :
        /\ pc[i] = "constructed" => created_files[i] = << >>
        /\ HasEntered(i) => created_files[i] = CallsOf(i, "symlink", "ok")
        /\ pc[i] = "exited" => created_files[i] = << >>

\* C8 as claimed: __enter__ attempts a symlink only for a name with no entry
\* of any kind; a name with an entry (file, directory, dangling link) gets no
\* attempt, is left alone and unrecorded, and the loop goes on.
C8_SkipsAnyEntry ==
    \A i \in Insts :
        HasEntered(i) =>
            \A n \in PsradNames :
                before[i][n] # Absent =>
                    /\ n \notin Called(i, "symlink")
                    /\ afterEnter[i][n] = before[i][n]
                    /\ n \notin Range(created_files[i])
                    /\ Called(i, "isfile") = PsradNames

\* the names __enter__ examined, in order
Examined(i) ==
    LET q == SelectSeq(syscalls[i], LAMBDA c : c[1] = "isfile")
    IN [k \in 1..Len(q) |-> q[k][2]]

\* C8 amended: __enter__ examines the names in list order and attempts a
\* symlink for exactly the names that do not resolve to a regular file.  A
\* name that resolves to a regular file is left alone and unrecorded and the
\* loop goes on; a name with no entry becomes a recorded alias and the loop
\* goes on; a directory or a dangling link makes the attempt fail with
\* FileExistsError, stays as it was and unrecorded, and ends __enter__.
C8_SkipsRegularFiles ==
    \A i \in Insts :
        HasEntered(i) =>
            /\ Examined(i) = SubSeq(psrad_files, 1, Len(Examined(i)))
            /\ Acquired(i) => Examined(i) = psrad_files
            /\ \A k \in 1..Len(Examined(i)) :
                  LET n == psrad_files[k] IN
                  /\ n \in Called(i, "symlink") <=> ~ ResolvesToFile(before[i], n)
                  /\ ResolvesToFile(before[i], n) =>
                        /\ afterEnter[i][n] = before[i][n]
                        /\ n \notin Range(created_files[i])
                        /\ k < Len(psrad_files) => Len(Examined(i)) > k
                  /\ before[i][n] = Absent =>
                        /\ afterEnter[i][n] = Alias(n)
                        /\ n \in Range(created_files[i])
                        /\ k < Len(psrad_files) => Len(Examined(i)) > k
                  /\ (before[i][n] # Absent /\ ~ ResolvesToFile(before[i], n)) =>
                        /\ afterEnter[i][n] = before[i][n]
                        /\ n \notin Range(created_files[i])
                        /\ Len(Examined(i)) = k
                        /\ pc[i] = "enter_failed"
                        /\ outcome[i] = << "raise", "FileExistsError" >>

C8_Witness ==
    \E i \in Insts :
        /\ pc[i] = "enter_failed"
        /\ before[i]["ECHAM6_CldOptProps.nc"] = RegFile
        /\ before[i]["rrtmg_lw.nc"] = Absent
        /\ before[i]["rrtmg_sw.nc"] = Directory
        /\ created_files[i] = << "rrtmg_lw.nc" >>

\* C9 as claimed: once control has left the scope, also when __enter__
\* failed part-way, no alias the instance created is left in the working
\* directory.
C9_NothingLeftBehind ==
    \A i \in Insts :
        pc[i] \in {"enter_failed", "exited"} =>
            \A n \in Range(created_files[i]) : cwd[n] = Absent

\* C10: two scopes on a working directory that starts without the four
\* names, every file present in the PSRAD directory.  When the second
\* __enter__ runs while the aliases of the first are in place, it creates
\* and records nothing and its __exit__ removes nothing; each alias is
\* created once and removed once, by the first instance, whichever scope
\* ends first.
C10_SecondOwnsNothing ==
    root = PsradNames =>
        \A i, j \in Insts :
            (/\ i # j
             /\ HasEntered(i) /\ AllAbsent(before[i])
             /\ HasEntered(j) /\ ~ AllAbsent(before[j])) =>
                /\ Acquired(j)
                /\ \A n \in PsradNames : before[j][n] = Alias(n)
                /\ afterEnter[j] = before[j]
                /\ created_files[j] = << >>
                /\ Called(j, "symlink") = {}
                /\ Called(j, "remove") = {}
                /\ created_files[i] = psrad_files
                /\ CallsOf(i, "symlink", "ok") = psrad_files
                /\ Called(i, "remove") # {} => pc[i] = "exited"
                /\ pc[i] = "exited" =>
                      /\ CallsOf(i, "remove", "ok") = psrad_files
                      /\ AllAbsent(afterExit[i])
                /\ (pc[i] = "exited" /\ pc[j] = "exited") => AllAbsent(cwd)

\* the second scope ends after the first (the scopes interleave)
C10_Witness ==
    /\ root = PsradNames
    /\ pc["A"] = "exited" /\ pc["B"] = "exited"
    /\ AllAbsent(before["A"]) /\ ~ AllAbsent(before["B"])
    /\ AllAbsent(afterExit["B"])
    /\ Len(syscalls["B"]) = 4

\* the array of a supplied item
ArrayOf(item) ==
    IF item.value \in { [ndarray |-> a] : a \in Arrays }
    THEN item.value.ndarray ELSE item.value.values

\* C6: an append to a dataset whose time axis has length t0 stores the
\* timestamp at time index t0 and, for each supplied variable with
\* dimensions (time, plev), the supplied values as row t0; the other
\* supplied variables keep their cells, every cell written before keeps its
\* value, and the time axis has length t0 + 1.
C6_AppendsRow ==
    appends > 0 =>
        LET t0 == nc0.tsize IN
        /\ nc.tsize = t0 + 1
        /\ nc.time[<< t0 >>] = lastStamp
        /\ DOMAIN nc.time = DOMAIN nc0.time \cup {<< t0 >>}
        /\ \A c \in DOMAIN nc0.time : nc.time[c] = nc0.time[c]
        /\ \A v \in VarNames :
              /\ nc.vars[v].dimensions = nc0.vars[v].dimensions
              /\ \A c \in DOMAIN nc0.vars[v].cells :
                    /\ c \in DOMAIN nc.vars[v].cells
                    /\ nc.vars[v].cells[c] = nc0.vars[v].cells[c]
        /\ \A k \in 1..Len(lastData) :
              LET v == lastData[k].var IN
              IF nc0.vars[v].dimensions = << "time", "plev" >>
              THEN /\ DOMAIN nc.vars[v].cells =
                         DOMAIN nc0.vars[v].cells \cup
                            { << t0, j >> : j \in 0..(NLev - 1) }
                   /\ \A j \in 0..(NLev - 1) :
                         nc.vars[v].cells[<< t0, j >>] = ArrayOf(lastData[k])[j]
              ELSE nc.vars[v].cells = nc0.vars[v].cells

C6_Witness ==
    /\ appends > 0
    /\ nc0.tsize = 2
    /\ lastStamp = 12
    /\ Len(lastData) = 2
    /\ \E k \in 1..2 : lastData[k] = [var |-> "T", value |->
                            [ndarray |-> [j \in 0..(NLev - 1) |-> 290 + 5 * j]]]
    /\ nc0.vars["T"].dimensions = << "time", "plev" >>
    /\ nc0.vars["X"].dimensions = << "plev" >>
    /\ \A j \in 0..(NLev - 1) : nc.vars["T"].cells[<< 2, j >>] = 290 + 5 * j
    /\ nc.vars["X"] = nc0.vars["X"]

====
